---- MODULE Spec2Model ----
(***************************************************************************)
(* Model of the credential-hashing core of matrix-authentication-service:  *)
(* crates/handlers/src/passwords.rs (PasswordManager, Hasher, Algorithm).  *)
(*                                                                         *)
(* The digests of bcrypt, argon2 and pbkdf2 are modelled as ideal          *)
(* (collision free) functions of the key material they are given: the      *)
(* encoded hash carries the algorithm tag, the cost, the salt and the      *)
(* digest input.  How the key material is built from the password and the  *)
(* pepper is modelled as the code builds it.                               *)
(***************************************************************************)
EXTENDS Integers, Sequences, FiniteSets, TLC

(***************************************************************************)
(* Bounds and input sets                                                   *)
(***************************************************************************)
\* longest construction list PasswordManager::new is given
MaxSchemes == 2
\* salts the seeded generator can produce are 1..MaxSalt
MaxSalt == 2
\* longest password / pepper fed to the Algorithm-level operations
MaxLen == 2

Bytes == {1, 2}
Salts == 1..MaxSalt

\* Option<T>: None or Some(x)
None == <<>>
Some(x) == <<x>>
IsSome(o) == Len(o) = 1
Unwrap(o) == o[1]

\* Result<T, E>
Ok(v) == [ok |-> TRUE, val |-> v, err |-> ""]
Err(e) == [ok |-> FALSE, val |-> <<>>, err |-> e]

\* the unit value ()
Unit == <<>>

(***************************************************************************)
(* Error values, named after the place that raises them                    *)
(***************************************************************************)
\* passwords.rs:21-23 and 108
PasswordManagerDisabledError == "Password manager is disabled"
\* passwords.rs:74
EmptyIteratorError == "Iterator must have at least one item"
\* passwords.rs:179
SchemeNotFoundError == "Hashing scheme not found"
\* passwords.rs:140 (ChaChaRng::from_rng(rng)?)
RngError == "rand::Error"
\* passwords.rs:299, 309, 315, 326 (library error while hashing)
HashLibraryError == "hash library error"
\* passwords.rs:345 (bcrypt::verify(..)? on a string bcrypt cannot parse)
BcryptInvalidHash == "bcrypt::BcryptError"
\* passwords.rs:346 (anyhow::ensure!(result, "wrong password"))
WrongPassword == "wrong password"
\* passwords.rs:360, 371 (PasswordHash::new(..)?)
PhcParseError == "password_hash::Error (parse)"
\* passwords.rs:362, 373 (verify_password(..)?)
PhcPasswordError == "password_hash::Error (verify_password)"

\* the error of awaiting a spawn_blocking task that did not complete, the
\* first `?` of `.await??` (passwords.rs:151, 186)
JoinError == "tokio::task::JoinError"

\* spec.md section 7: the failures that make up "verification failed"
VerificationFailedErrors ==
    {BcryptInvalidHash, WrongPassword, PhcParseError, PhcPasswordError}

(***************************************************************************)
(* Hasher and Algorithm  (passwords.rs:233-379)                            *)
(***************************************************************************)
\* bcrypt's cost when the Hasher names none (passwords.rs:299)
DefaultBcryptCost == 12

bcrypt(cost, pepper) == [algorithm |-> "Bcrypt", cost |-> cost, pepper |-> pepper]
argon2id(pepper) == [algorithm |-> "Argon2id", cost |-> None, pepper |-> pepper]
pbkdf2(pepper) == [algorithm |-> "Pbkdf2", cost |-> None, pepper |-> pepper]

\* an encoded hash string: algorithm tag, cost, salt, digest
Encoded(ident, cost, salt, key, secret) ==
    [ident |-> ident, cost |-> cost, salt |-> salt,
     digest |-> [key |-> key, secret |-> secret]]

\* a string none of the three libraries can parse
Malformed == Encoded("garbage", 0, 0, <<>>, <<>>)

\* the pepper left out of the key material
WithPepper_Ignored(password, pepper) == password

\* password.to_vec() followed by extend_from_slice(pepper)
WithPepper(password, pepper) ==
    IF IsSome(pepper) THEN password \o Unwrap(pepper) ELSE password

\* Argon2::new_with_secret(secret, ..) / Argon2::new(..): the key of the hash
Argon2Secret(pepper) ==
    IF IsSome(pepper) THEN Unwrap(pepper) ELSE <<>>

\* Algorithm::hash_blocking with Argon2id appending the pepper to the password
\* instead of keying the hash with it
Algorithm_hash_blocking_Argon2Append(algorithm, cost, salt, lib_ok, password, pepper) ==
    IF ~lib_ok THEN Err(HashLibraryError)
    ELSE CASE algorithm = "Bcrypt" ->
                Ok(Encoded("2b",
                           IF IsSome(cost) THEN Unwrap(cost) ELSE DefaultBcryptCost,
                           salt, WithPepper(password, pepper), <<>>))
           [] algorithm = "Argon2id" ->
                Ok(Encoded("argon2id", 0, salt, WithPepper(password, pepper), <<>>))
           [] algorithm = "Pbkdf2" ->
                Ok(Encoded("pbkdf2-sha256", 0, salt,
                           WithPepper(password, pepper), <<>>))

\* Algorithm::hash_blocking; lib_ok is whether the library calls succeed
Algorithm_hash_blocking(algorithm, cost, salt, lib_ok, password, pepper) ==
    IF ~lib_ok THEN Err(HashLibraryError)
    ELSE CASE algorithm = "Bcrypt" ->
                Ok(Encoded("2b",
                           IF IsSome(cost) THEN Unwrap(cost) ELSE DefaultBcryptCost,
                           salt, WithPepper(password, pepper), <<>>))
           [] algorithm = "Argon2id" ->
                Ok(Encoded("argon2id", 0, salt, password, Argon2Secret(pepper)))
           [] algorithm = "Pbkdf2" ->
                Ok(Encoded("pbkdf2-sha256", 0, salt,
                           WithPepper(password, pepper), <<>>))

\* Algorithm::verify_blocking without the anyhow::ensure!(result, ..) of the
\* bcrypt branch: the boolean bcrypt::verify returns is dropped
Algorithm_verify_blocking_NoEnsure(algorithm, hashed_password, password, pepper) ==
    CASE algorithm = "Bcrypt" ->
            IF hashed_password.ident # "2b" THEN Err(BcryptInvalidHash)
            ELSE Ok(Unit)
      [] algorithm = "Argon2id" ->
            IF hashed_password.ident \notin {"argon2id", "pbkdf2-sha256"}
            THEN Err(PhcParseError)
            ELSE IF /\ hashed_password.ident = "argon2id"
                    /\ hashed_password.digest
                         = [key |-> password, secret |-> Argon2Secret(pepper)]
                 THEN Ok(Unit)
                 ELSE Err(PhcPasswordError)
      [] algorithm = "Pbkdf2" ->
            IF hashed_password.ident \notin {"argon2id", "pbkdf2-sha256"}
            THEN Err(PhcParseError)
            ELSE IF /\ hashed_password.ident = "pbkdf2-sha256"
                    /\ hashed_password.digest
                         = [key |-> WithPepper(password, pepper), secret |-> <<>>]
                 THEN Ok(Unit)
                 ELSE Err(PhcPasswordError)

\* Algorithm::verify_blocking
Algorithm_verify_blocking(algorithm, hashed_password, password, pepper) ==
    CASE algorithm = "Bcrypt" ->
            IF hashed_password.ident # "2b" THEN Err(BcryptInvalidHash)
            ELSE IF hashed_password.digest
                    = [key |-> WithPepper(password, pepper), secret |-> <<>>]
                 THEN Ok(Unit)
                 ELSE Err(WrongPassword)
      [] algorithm = "Argon2id" ->
            IF hashed_password.ident \notin {"argon2id", "pbkdf2-sha256"}
            THEN Err(PhcParseError)
            ELSE IF /\ hashed_password.ident = "argon2id"
                    /\ hashed_password.digest
                         = [key |-> password, secret |-> Argon2Secret(pepper)]
                 THEN Ok(Unit)
                 ELSE Err(PhcPasswordError)
      [] algorithm = "Pbkdf2" ->
            IF hashed_password.ident \notin {"argon2id", "pbkdf2-sha256"}
            THEN Err(PhcParseError)
            ELSE IF /\ hashed_password.ident = "pbkdf2-sha256"
                    /\ hashed_password.digest
                         = [key |-> WithPepper(password, pepper), secret |-> <<>>]
                 THEN Ok(Unit)
                 ELSE Err(PhcPasswordError)

\* Hasher::hash_blocking
Hasher_hash_blocking(hasher, salt, lib_ok, password) ==
    Algorithm_hash_blocking(hasher.algorithm, hasher.cost, salt, lib_ok,
                            password, hasher.pepper)

\* Hasher::verify_blocking
Hasher_verify_blocking(hasher, hashed_password, password) ==
    Algorithm_verify_blocking(hasher.algorithm, hashed_password, password,
                              hasher.pepper)

(***************************************************************************)
(* PasswordManager  (passwords.rs:25-231)                                  *)
(***************************************************************************)
\* versions a construction list may name, and versions a caller may present
SchemeVersions == {1, 2}
CallVersions == {1, 2, 3}

\* the hashers construction lists are built from (passwords.rs:54-58, 490-612)
SchemeHashers ==
    {bcrypt(Some(10), Some(<<1>>)), argon2id(None), pbkdf2(Some(<<2>>))}

\* the minimum_complexity and rest_auth_provider managers are built with
ManagerSettings == {<<0, None>>, <<3, Some("rest")>>, <<5, None>>}

\* passwords presented to the manager
ManagerPasswords == {<<1>>, <<2>>}

\* every list of at most n entries
RECURSIVE ListsUpTo(_, _)
ListsUpTo(S, n) ==
    IF n = 0 THEN {<<>>}
    ELSE LET shorter == ListsUpTo(S, n - 1)
         IN  shorter \cup {Append(l, e) : l \in {x \in shorter : Len(x) = n - 1}, e \in S}

SchemeLists == ListsUpTo(SchemeVersions \X SchemeHashers, MaxSchemes)

LongSchemeLists == ListsUpTo(SchemeVersions \X SchemeHashers, MaxSchemes + 1)

\* a collection that keeps the first entry of a repeated version
Collect_FirstWins(entries) ==
    [v \in {entries[i][1] : i \in DOMAIN entries} |->
        LET first == CHOOSE i \in DOMAIN entries :
                         /\ entries[i][1] = v
                         /\ \A j \in DOMAIN entries : entries[j][1] = v => i <= j
        IN  entries[first][2]]

\* iter.collect() into a HashMap: a later entry replaces an earlier one with
\* the same key
Collect(entries) ==
    [v \in {entries[i][1] : i \in DOMAIN entries} |->
        LET last == CHOOSE i \in DOMAIN entries :
                        /\ entries[i][1] = v
                        /\ \A j \in DOMAIN entries : entries[j][1] = v => j <= i
        IN  entries[last][2]]

\* PasswordManager::disabled
disabled == [inner |-> None]

\* PasswordManager::new turning an empty list into a disabled manager
new_EmptyIsDisabled(minimum_complexity, rest_auth_provider, iter) ==
    IF Len(iter) = 0 THEN Ok(disabled)
    ELSE Ok([inner |-> Some(
                [minimum_complexity |-> minimum_complexity,
                 current_hasher |-> iter[1][2],
                 current_version |-> iter[1][1],
                 other_hashers |-> Collect(Tail(iter)),
                 rest_auth_provider |-> rest_auth_provider])])

\* PasswordManager::new
new(minimum_complexity, rest_auth_provider, iter) ==
    IF Len(iter) = 0 THEN Err(EmptyIteratorError)
    ELSE Ok([inner |-> Some(
                [minimum_complexity |-> minimum_complexity,
                 current_hasher |-> iter[1][2],
                 current_version |-> iter[1][1],
                 other_hashers |-> Collect(Tail(iter)),
                 rest_auth_provider |-> rest_auth_provider])])

\* PasswordManager::is_enabled
is_enabled(self) == IsSome(self.inner)

\* PasswordManager::get_inner
get_inner(self) ==
    IF IsSome(self.inner) THEN Ok(Unwrap(self.inner))
    ELSE Err(PasswordManagerDisabledError)

\* the hasher lookup falling back to the current hasher for an unknown version
LookupHasher_Fallback(inner, scheme) ==
    IF scheme = inner.current_version THEN Ok(inner.current_hasher)
    ELSE IF scheme \in DOMAIN inner.other_hashers
         THEN Ok(inner.other_hashers[scheme])
         ELSE Ok(inner.current_hasher)

\* the hasher lookup of PasswordManager::verify (passwords.rs:173-180)
LookupHasher(inner, scheme) ==
    IF scheme = inner.current_version THEN Ok(inner.current_hasher)
    ELSE IF scheme \in DOMAIN inner.other_hashers
         THEN Ok(inner.other_hashers[scheme])
         ELSE Err(SchemeNotFoundError)

\* verify_and_upgrade hashing with the default scheme whatever the version
NeedsUpgrade_Always(inner, scheme) == TRUE

\* whether verify_and_upgrade also hashes with the default scheme
\* (passwords.rs:209)
NeedsUpgrade(inner, scheme) == scheme # inner.current_version

\* the closure PasswordManager::verify hands to spawn_blocking
VerifyTask(inner, scheme, password, hashed_password) ==
    LET hasher == LookupHasher(inner, scheme)
    IN  IF hasher.ok
        THEN Hasher_verify_blocking(hasher.val, hashed_password, password)
        ELSE Err(hasher.err)

\* PasswordManager::hash finding its hasher by version in the legacy table
HashTask_ByVersion(inner, salt, lib_ok, password) ==
    LET hasher == IF inner.current_version \in DOMAIN inner.other_hashers
                  THEN inner.other_hashers[inner.current_version]
                  ELSE inner.current_hasher
        hashed == Hasher_hash_blocking(hasher, salt, lib_ok, password)
    IN  IF hashed.ok THEN Ok(<<inner.current_version, hashed.val>>)
        ELSE Err(hashed.err)

\* the closure PasswordManager::hash hands to spawn_blocking, and the pair
\* hash returns from its result (passwords.rs:145-152)
HashTask(inner, salt, lib_ok, password) ==
    LET hashed == Hasher_hash_blocking(inner.current_hasher, salt, lib_ok, password)
    IN  IF hashed.ok THEN Ok(<<inner.current_version, hashed.val>>)
        ELSE Err(hashed.err)

\* the encoded hashes a caller may present: produced by some hasher (with
\* the first salt), or junk
HashInputs ==
    {Hasher_hash_blocking(h, 1, TRUE, p).val :
        h \in SchemeHashers, p \in ManagerPasswords}
    \cup {Malformed}

(***************************************************************************)
(* State                                                                   *)
(***************************************************************************)
VARIABLES
    ctor,       \* the constructor used: "none", "new" or "disabled"
    phase,      \* "startup", "failed" (new returned an error) or "running"
    schemes,    \* the list PasswordManager::new was given
    manager,    \* the PasswordManager
    pc,         \* the caller: "idle", "await" (suspended on the pool), "done",
                \* or "cancelled" (dropped while it was suspended)
    call,       \* the operation in progress or last finished, with its arguments
    fut,        \* the hash and verify futures of the call
    work,       \* what the call has done so far
    ret,        \* what the last finished call (or new) returned
    mem,        \* the buffers of the call that hold raw password bytes
    alg_args,   \* Algorithm level: the algorithm, password and pepper in use
    alg_hashed, \* Algorithm level: the result of hash_blocking
    alg_check,  \* Algorithm level: the last verify_blocking call and its result
    rows,       \* storage: the rows of the user_passwords table
    store_ret,  \* storage: the last repository call and what it returned
    added       \* storage: the last successful add, until the user's records
                \* are written again

mgrVars == <<ctor, phase, schemes, manager, pc, call, fut, work, ret, mem>>
algVars == <<alg_args, alg_hashed, alg_check>>
storeVars == <<rows, store_ret, added>>
vars == <<mgrVars, algVars, storeVars>>

NoFuture == [state |-> "none", res |-> Err("")]
Spawned == [state |-> "spawned", res |-> Err("")]
Ready(res) == [state |-> "ready", res |-> res]

NoWork == [spawned |-> 0, rng_draws |-> 0, hash_runs |-> 0, verify_runs |-> 0,
           detached_runs |-> 0]

NoCall == [op |-> "none", scheme |-> 0, password |-> <<>>,
           hashed_password |-> Malformed, score |-> 0]

NoAlgArgs == [algorithm |-> "none", cost |-> None, password |-> <<>>,
              pepper |-> None]
NoAlgCheck == [done |-> FALSE, hashed_password |-> Malformed,
               password |-> <<>>, pepper |-> None, res |-> Err("")]

\* the buffers that hold raw password bytes during a call: the caller's
\* Zeroizing<Vec<u8>>, the clone verify_and_upgrade makes for hash, and the
\* password+pepper copies of hash_blocking and verify_blocking, each with the
\* allocation it was grown from; a buffer is "none" (never made), "live",
\* "zeroed" (wiped by Zeroizing's drop) or "freed" (released without a wipe)
NoMem == [password |-> "none", clone |-> "none",
          hash_copy |-> "none", hash_grown_from |-> "none",
          verify_copy |-> "none", verify_grown_from |-> "none"]

\* whether extend_from_slice has to grow the copy: to_vec allocates exactly
\* the password's length (passwords.rs:292-295, 320-323, 340-343, 366-369)
Grows(hasher, password) ==
    /\ hasher.algorithm \in {"Bcrypt", "Pbkdf2"}
    /\ Len(password) > 0
    /\ IsSome(hasher.pepper)
    /\ Len(Unwrap(hasher.pepper)) > 0

\* the password+pepper copy once hash_blocking or verify_blocking is over: the
\* Zeroizing wrapper wipes the final allocation; when the growth moved the
\* bytes, the allocator released the first allocation as it was
CopyAfter(hasher, password, moved) ==
    [copy |-> IF hasher.algorithm \in {"Bcrypt", "Pbkdf2"} THEN "zeroed" ELSE "none",
     grown_from |-> IF Grows(hasher, password) /\ moved THEN "freed" ELSE "none"]

MgrInit ==
    /\ ctor = "none"
    /\ phase = "startup"
    /\ schemes = <<>>
    /\ manager = disabled
    /\ pc = "idle"
    /\ call = NoCall
    /\ fut = [hash |-> NoFuture, verify |-> NoFuture]
    /\ work = NoWork
    /\ ret = Err("")
    /\ mem = NoMem

AlgIdle ==
    /\ alg_args = NoAlgArgs
    /\ alg_hashed = Err("")
    /\ alg_check = NoAlgCheck

NoStoreCall == [op |-> "none", user |-> 0, ok |-> FALSE, password |-> None]

StoreIdle ==
    /\ rows = {}
    /\ store_ret = NoStoreCall
    /\ added = None

Init == MgrInit /\ AlgIdle /\ StoreIdle

(***************************************************************************)
(* Construction                                                            *)
(***************************************************************************)
\* PasswordManager::new(minimum_complexity, rest_auth_provider, iter)
NewFrom(lists) ==
    /\ phase = "startup"
    /\ \E settings \in ManagerSettings, iter \in lists :
          LET res == new(settings[1], settings[2], iter)
          IN  /\ ctor' = "new"
              /\ schemes' = iter
              /\ phase' = IF res.ok THEN "running" ELSE "failed"
              /\ manager' = IF res.ok THEN res.val ELSE manager
              /\ ret' = IF res.ok THEN Ok(Unit) ELSE Err(res.err)
    /\ UNCHANGED <<pc, call, fut, work, mem>>
    /\ UNCHANGED <<algVars, storeVars>>

New == NewFrom(SchemeLists)

\* PasswordManager::new with a list long enough to repeat a version among
\* its non-first entries
NewLong == NewFrom(LongSchemeLists)

\* PasswordManager::disabled()
Disabled ==
    /\ phase = "startup"
    /\ ctor' = "disabled"
    /\ phase' = "running"
    /\ manager' = disabled
    /\ UNCHANGED <<schemes, pc, call, fut, work, ret, mem>>
    /\ UNCHANGED <<algVars, storeVars>>

(***************************************************************************)
(* Operations                                                              *)
(***************************************************************************)
CanCall == phase = "running" /\ pc = "idle"

\* the first poll of PasswordManager::hash: get_inner, seed the generator from
\* the caller's rng, submit the closure to the blocking pool
\* (passwords.rs:136-150); f and w are the futures and the work so far
HashPoll(rng_ok, f, w) ==
    IF ~rng_ok
    THEN [fut |-> [f EXCEPT !.hash = Ready(Err(RngError))],
          work |-> [w EXCEPT !.rng_draws = @ + 1]]
    ELSE [fut |-> [f EXCEPT !.hash = Spawned],
          work |-> [w EXCEPT !.rng_draws = @ + 1, !.spawned = @ + 1]]

\* the first poll of PasswordManager::verify (passwords.rs:168-185)
VerifyPoll(f, w) ==
    [fut |-> [f EXCEPT !.verify = Spawned],
     work |-> [w EXCEPT !.spawned = @ + 1]]

NoFutures == [hash |-> NoFuture, verify |-> NoFuture]

\* an operation that returns without suspending
Finish(c, res) ==
    /\ call' = c
    /\ pc' = "done"
    /\ ret' = res
    /\ fut' = NoFutures
    /\ work' = NoWork

\* the complexity gate accepting only scores above the minimum
ComplexEnough_Strict(score, minimum_complexity) == score > minimum_complexity

\* the comparison of is_password_complex_enough (passwords.rs:120)
ComplexEnough(score, minimum_complexity) == score >= minimum_complexity

\* PasswordManager::is_password_complex_enough; score is zxcvbn's result
is_password_complex_enough ==
    /\ CanCall
    /\ \E password \in ManagerPasswords, score \in 0..4 :
          LET c == [NoCall EXCEPT !.op = "is_password_complex_enough",
                                  !.password = password, !.score = score]
              inner == get_inner(manager)
          IN  IF ~inner.ok THEN Finish(c, Err(inner.err))
              ELSE Finish(c, Ok(ComplexEnough(score, inner.val.minimum_complexity)))
    /\ UNCHANGED <<ctor, phase, schemes, manager, mem>>
    /\ UNCHANGED <<algVars, storeVars>>

\* PasswordManager::get_rest_auth_provider
get_rest_auth_provider ==
    /\ CanCall
    /\ LET c == [NoCall EXCEPT !.op = "get_rest_auth_provider"]
           inner == get_inner(manager)
       IN  IF ~inner.ok THEN Finish(c, Err(inner.err))
           ELSE Finish(c, Ok(inner.val.rest_auth_provider))
    /\ UNCHANGED <<ctor, phase, schemes, manager, mem>>
    /\ UNCHANGED <<algVars, storeVars>>

\* PasswordManager::hash seeding its generator before get_inner
hash_SeedFirst ==
    /\ CanCall
    /\ \E rng_ok \in BOOLEAN, password \in ManagerPasswords :
          LET c == [NoCall EXCEPT !.op = "hash", !.password = password]
              inner == get_inner(manager)
              p == HashPoll(rng_ok, NoFutures, NoWork)
          IN  /\ call' = c
              /\ work' = p.work
              /\ fut' = IF inner.ok THEN p.fut ELSE NoFutures
              /\ pc' = IF rng_ok /\ inner.ok THEN "await" ELSE "done"
              /\ ret' = IF ~rng_ok THEN Err(RngError)
                        ELSE IF ~inner.ok THEN Err(inner.err) ELSE Err("")
              /\ mem' = [NoMem EXCEPT !.password =
                            IF rng_ok /\ inner.ok THEN "live" ELSE "zeroed"]
    /\ UNCHANGED <<ctor, phase, schemes, manager>>
    /\ UNCHANGED <<algVars, storeVars>>

\* PasswordManager::hash, up to its await
hash ==
    /\ CanCall
    /\ \E rng_ok \in BOOLEAN, password \in ManagerPasswords :
          LET c == [NoCall EXCEPT !.op = "hash", !.password = password]
              inner == get_inner(manager)
              p == HashPoll(rng_ok, NoFutures, NoWork)
          IN  IF ~inner.ok
              THEN /\ Finish(c, Err(inner.err))
                   /\ mem' = [NoMem EXCEPT !.password = "zeroed"]
              ELSE /\ call' = c
                   /\ fut' = p.fut
                   /\ work' = p.work
                   /\ pc' = IF rng_ok THEN "await" ELSE "done"
                   /\ ret' = IF rng_ok THEN Err("") ELSE Err(RngError)
                   /\ mem' = [NoMem EXCEPT !.password =
                                 IF rng_ok THEN "live" ELSE "zeroed"]
    /\ UNCHANGED <<ctor, phase, schemes, manager>>
    /\ UNCHANGED <<algVars, storeVars>>

\* PasswordManager::verify running the closure on the caller's own task
verify_Inline ==
    /\ CanCall
    /\ \E scheme \in CallVersions, password \in ManagerPasswords,
          hashed_password \in HashInputs :
          LET c == [NoCall EXCEPT !.op = "verify", !.scheme = scheme,
                                  !.password = password,
                                  !.hashed_password = hashed_password]
              inner == get_inner(manager)
          IN  IF ~inner.ok
              THEN /\ Finish(c, Err(inner.err))
                   /\ mem' = [NoMem EXCEPT !.password = "zeroed"]
              ELSE /\ call' = c
                   /\ fut' = [NoFutures EXCEPT !.verify =
                                Ready(VerifyTask(inner.val, scheme, password,
                                                 hashed_password))]
                   /\ work' = [NoWork EXCEPT !.verify_runs =
                                 IF LookupHasher(inner.val, scheme).ok THEN 1 ELSE 0]
                   /\ pc' = "await"
                   /\ ret' = Err("")
                   /\ mem' = [NoMem EXCEPT !.password = "zeroed"]
    /\ UNCHANGED <<ctor, phase, schemes, manager>>
    /\ UNCHANGED <<algVars, storeVars>>

\* PasswordManager::verify, up to its await
verify ==
    /\ CanCall
    /\ \E scheme \in CallVersions, password \in ManagerPasswords,
          hashed_password \in HashInputs :
          LET c == [NoCall EXCEPT !.op = "verify", !.scheme = scheme,
                                  !.password = password,
                                  !.hashed_password = hashed_password]
              inner == get_inner(manager)
              p == VerifyPoll(NoFutures, NoWork)
          IN  IF ~inner.ok
              THEN /\ Finish(c, Err(inner.err))
                   /\ mem' = [NoMem EXCEPT !.password = "zeroed"]
              ELSE /\ call' = c
                   /\ fut' = p.fut
                   /\ work' = p.work
                   /\ pc' = "await"
                   /\ ret' = Err("")
                   /\ mem' = [NoMem EXCEPT !.password = "live"]
    /\ UNCHANGED <<ctor, phase, schemes, manager>>
    /\ UNCHANGED <<algVars, storeVars>>

\* PasswordManager::verify_and_upgrade, up to the await of tokio::join!:
\* new_hash_fut is polled first, then verify_fut (passwords.rs:205-215)
verify_and_upgrade ==
    /\ CanCall
    /\ \E rng_ok \in BOOLEAN, scheme \in CallVersions,
          password \in ManagerPasswords, hashed_password \in HashInputs :
          LET c == [NoCall EXCEPT !.op = "verify_and_upgrade", !.scheme = scheme,
                                  !.password = password,
                                  !.hashed_password = hashed_password]
              inner == get_inner(manager)
          IN  IF ~inner.ok
              THEN /\ Finish(c, Err(inner.err))
                   /\ mem' = [NoMem EXCEPT !.password = "zeroed"]
              ELSE LET h == IF NeedsUpgrade(inner.val, scheme)
                            THEN HashPoll(rng_ok, NoFutures, NoWork)
                            ELSE [fut |-> NoFutures, work |-> NoWork]
                       p == VerifyPoll(h.fut, h.work)
                   IN  /\ call' = c
                       /\ fut' = p.fut
                       /\ work' = p.work
                       /\ pc' = "await"
                       /\ ret' = Err("")
                       /\ mem' = [NoMem EXCEPT
                                     !.password = "live",
                                     !.clone = IF ~NeedsUpgrade(inner.val, scheme)
                                               THEN "none"
                                               ELSE IF rng_ok THEN "live"
                                                    ELSE "zeroed"]
    /\ UNCHANGED <<ctor, phase, schemes, manager>>
    /\ UNCHANGED <<algVars, storeVars>>

(***************************************************************************)
(* The blocking pool                                                       *)
(***************************************************************************)
\* the pool runs the closure of PasswordManager::hash (passwords.rs:147-150)
RunHashTask ==
    /\ fut.hash.state = "spawned"
    /\ \E salt \in Salts, lib_ok \in BOOLEAN :
          fut' = [fut EXCEPT !.hash =
                    Ready(HashTask(Unwrap(manager.inner), salt, lib_ok, call.password))]
    /\ work' = [work EXCEPT !.hash_runs = @ + 1,
                            !.detached_runs = IF pc = "cancelled" THEN @ + 1 ELSE @]
    /\ LET hasher == Unwrap(manager.inner).current_hasher
       IN  \E moved \in IF Grows(hasher, call.password) THEN BOOLEAN ELSE {FALSE} :
              LET copy == CopyAfter(hasher, call.password, moved)
                  own == [mem EXCEPT !.hash_copy = copy.copy,
                                     !.hash_grown_from = copy.grown_from]
              IN  mem' = IF call.op = "hash"
                         THEN [own EXCEPT !.password = "zeroed"]
                         ELSE [own EXCEPT !.clone = "zeroed"]
    /\ UNCHANGED <<ctor, phase, schemes, manager, pc, call, ret>>
    /\ UNCHANGED <<algVars, storeVars>>

\* the pool runs the closure of PasswordManager::verify (passwords.rs:171-185)
RunVerifyTask ==
    /\ fut.verify.state = "spawned"
    /\ LET inner == Unwrap(manager.inner)
           found == LookupHasher(inner, call.scheme).ok
       IN  /\ fut' = [fut EXCEPT !.verify =
                        Ready(VerifyTask(inner, call.scheme, call.password,
                                         call.hashed_password))]
           /\ work' = [work EXCEPT !.verify_runs = IF found THEN @ + 1 ELSE @,
                                   !.detached_runs = IF pc = "cancelled" THEN @ + 1 ELSE @]
           /\ IF ~found
              THEN mem' = [mem EXCEPT !.password = "zeroed"]
              ELSE LET hasher == LookupHasher(inner, call.scheme).val
                   IN  \E moved \in IF Grows(hasher, call.password)
                                    THEN BOOLEAN ELSE {FALSE} :
                          LET copy == CopyAfter(hasher, call.password, moved)
                          IN  mem' = [mem EXCEPT
                                        !.password = "zeroed",
                                        !.verify_copy = copy.copy,
                                        !.verify_grown_from = copy.grown_from]
    /\ UNCHANGED <<ctor, phase, schemes, manager, pc, call, ret>>
    /\ UNCHANGED <<algVars, storeVars>>

\* verify_and_upgrade treating a failed speculative hash as "no upgrade"
UpgradeResult_SwallowHashError(new_hash_res, verify_res) ==
    IF ~verify_res.ok THEN Err(verify_res.err)
    ELSE IF ~IsSome(new_hash_res) \/ ~Unwrap(new_hash_res).ok THEN Ok(None)
         ELSE Ok(Some(Unwrap(new_hash_res).val))

\* verify_and_upgrade dropping the new hash
UpgradeResult_NoUpgrade(new_hash_res, verify_res) ==
    IF ~verify_res.ok THEN Err(verify_res.err) ELSE Ok(None)

\* verify_and_upgrade looking at the new hash before the verification
UpgradeResult_HashFirst(new_hash_res, verify_res) ==
    IF IsSome(new_hash_res) /\ ~Unwrap(new_hash_res).ok
    THEN Err(Unwrap(new_hash_res).err)
    ELSE IF ~verify_res.ok THEN Err(verify_res.err)
         ELSE IF ~IsSome(new_hash_res) THEN Ok(None)
              ELSE Ok(Some(Unwrap(new_hash_res).val))

\* what verify_and_upgrade returns once tokio::join! has both results
\* (passwords.rs:215-220)
UpgradeResult(new_hash_res, verify_res) ==
    IF ~verify_res.ok THEN Err(verify_res.err)
    ELSE IF ~IsSome(new_hash_res) THEN Ok(None)
         ELSE IF ~Unwrap(new_hash_res).ok THEN Err(Unwrap(new_hash_res).err)
              ELSE Ok(Some(Unwrap(new_hash_res).val))

\* the caller resuming as soon as the verification has failed
Resume_EarlyFail ==
    /\ pc = "await"
    /\ fut.verify.state # "spawned"
    /\ fut.hash.state = "spawned" => ~fut.verify.res.ok
    /\ ret' = CASE call.op = "hash" -> fut.hash.res
                [] call.op = "verify" -> fut.verify.res
                [] call.op = "verify_and_upgrade" ->
                     IF fut.hash.state = "spawned" THEN Err(fut.verify.res.err)
                     ELSE UpgradeResult(IF fut.hash.state = "ready"
                                        THEN Some(fut.hash.res) ELSE None,
                                        fut.verify.res)
    /\ pc' = "done"
    /\ UNCHANGED <<ctor, phase, schemes, manager, call, fut, work, mem>>
    /\ UNCHANGED <<algVars, storeVars>>

\* the suspended caller resumes: every future of the call is ready
Resume ==
    /\ pc = "await"
    /\ fut.hash.state # "spawned"
    /\ fut.verify.state # "spawned"
    /\ ret' = CASE call.op = "hash" -> fut.hash.res
                [] call.op = "verify" -> fut.verify.res
                [] call.op = "verify_and_upgrade" ->
                     UpgradeResult(IF fut.hash.state = "ready"
                                   THEN Some(fut.hash.res) ELSE None,
                                   fut.verify.res)
    /\ pc' = "done"
    /\ UNCHANGED <<ctor, phase, schemes, manager, call, fut, work, mem>>
    /\ UNCHANGED <<algVars, storeVars>>

\* the caller takes the result; the manager is ready for the next call
Return ==
    /\ pc = "done"
    /\ pc' = "idle"
    /\ call' = NoCall
    /\ fut' = NoFutures
    /\ work' = NoWork
    /\ ret' = Err("")
    /\ mem' = NoMem
    /\ UNCHANGED <<ctor, phase, schemes, manager>>
    /\ UNCHANGED <<algVars, storeVars>>

\* the caller dropped and its tasks taken off the pool with it
Cancel_Abort ==
    /\ pc = "await"
    /\ fut.hash.state = "spawned" \/ fut.verify.state = "spawned"
    /\ pc' = "cancelled"
    /\ fut' = [f \in DOMAIN fut |->
                 IF fut[f].state = "spawned" THEN Ready(Err(JoinError)) ELSE fut[f]]
    /\ UNCHANGED <<ctor, phase, schemes, manager, call, work, ret, mem>>
    /\ UNCHANGED <<algVars, storeVars>>

\* the caller is dropped while it is suspended on the pool: the JoinHandles
\* of its spawn_blocking tasks are dropped with it, the tasks stay on the pool
\* (passwords.rs:147-151, 171-186)
Cancel ==
    /\ pc = "await"
    /\ fut.hash.state = "spawned" \/ fut.verify.state = "spawned"
    /\ pc' = "cancelled"
    /\ UNCHANGED <<ctor, phase, schemes, manager, call, fut, work, ret, mem>>
    /\ UNCHANGED <<algVars, storeVars>>

\* the tasks of a cancelled call have finished: their results are dropped,
\* nobody is left to receive them
Discard ==
    /\ pc = "cancelled"
    /\ fut.hash.state # "spawned"
    /\ fut.verify.state # "spawned"
    /\ pc' = "idle"
    /\ call' = NoCall
    /\ fut' = NoFutures
    /\ work' = NoWork
    /\ ret' = Err("")
    /\ mem' = NoMem
    /\ UNCHANGED <<ctor, phase, schemes, manager>>
    /\ UNCHANGED <<algVars, storeVars>>

Next ==
    \/ New
    \/ Disabled
    \/ is_password_complex_enough
    \/ get_rest_auth_provider
    \/ hash
    \/ verify
    \/ verify_and_upgrade
    \/ RunHashTask
    \/ RunVerifyTask
    \/ Resume
    \/ Return
    \/ Cancel
    \/ Discard

Spec == Init /\ [][Next]_vars

(***************************************************************************)
(* The Algorithm-level operations on their own  (passwords.rs:283-379)     *)
(***************************************************************************)
RECURSIVE SeqsUpTo(_, _)
SeqsUpTo(S, n) ==
    IF n = 0 THEN {<<>>}
    ELSE LET shorter == SeqsUpTo(S, n - 1)
         IN  shorter \cup {Append(q, e) : q \in {x \in shorter : Len(x) = n - 1}, e \in S}

AlgPasswords == SeqsUpTo(Bytes, MaxLen)
AlgPeppers == {None} \cup {Some(q) : q \in SeqsUpTo(Bytes, MaxLen)}

\* Algorithm::Bcrypt { cost }, Algorithm::Argon2id, Algorithm::Pbkdf2
Algorithms ==
    {[algorithm |-> "Bcrypt", cost |-> None],
     [algorithm |-> "Bcrypt", cost |-> Some(10)],
     [algorithm |-> "Argon2id", cost |-> None],
     [algorithm |-> "Pbkdf2", cost |-> None]}

AlgInit ==
    /\ MgrInit
    /\ \E a \in Algorithms, password \in AlgPasswords, pepper \in AlgPeppers :
          alg_args = [algorithm |-> a.algorithm, cost |-> a.cost,
                      password |-> password, pepper |-> pepper]
    /\ alg_hashed = Err("")
    /\ alg_check = NoAlgCheck
    /\ StoreIdle

\* alg.hash_blocking(rng, password, pepper); the salt comes from rng
hash_blocking ==
    /\ ~alg_hashed.ok
    /\ alg_hashed.err = ""
    /\ \E salt \in Salts, lib_ok \in BOOLEAN :
          alg_hashed' = Algorithm_hash_blocking(alg_args.algorithm, alg_args.cost,
                                                salt, lib_ok, alg_args.password,
                                                alg_args.pepper)
    /\ UNCHANGED <<alg_args, alg_check>>
    /\ UNCHANGED <<mgrVars, storeVars>>

\* alg.verify_blocking(hash, password, pepper) on the hash just produced or on
\* a malformed string, with any password and pepper
verify_blocking ==
    /\ alg_hashed.ok
    /\ ~alg_check.done
    /\ \E hashed_password \in {alg_hashed.val, Malformed},
          password \in AlgPasswords, pepper \in AlgPeppers :
          alg_check' = [done |-> TRUE, hashed_password |-> hashed_password,
                        password |-> password, pepper |-> pepper,
                        res |-> Algorithm_verify_blocking(alg_args.algorithm,
                                    hashed_password, password, pepper)]
    /\ UNCHANGED <<alg_args, alg_hashed>>
    /\ UNCHANGED <<mgrVars, storeVars>>

NextAlg ==
    \/ hash_blocking
    \/ verify_blocking

SpecAlg == AlgInit /\ [][NextAlg]_vars

(***************************************************************************)
(* Properties                                                              *)
(***************************************************************************)
Enabled == phase = "running" /\ is_enabled(manager)
Cur == Unwrap(manager.inner)

\* hashed is an encoded hash the hasher produces for the password
ProducedUnder(hasher, password, hashed) ==
    \E salt \in Salts :
        Hasher_hash_blocking(hasher, salt, TRUE, password).val = hashed

\* verify_and_upgrade has returned for a pair produced under a legacy scheme
\* of the registry, presented with the password it was produced from
UpgradeCase ==
    /\ pc = "done"
    /\ call.op = "verify_and_upgrade"
    /\ Enabled
    /\ call.scheme # Cur.current_version
    /\ call.scheme \in DOMAIN Cur.other_hashers
    /\ ProducedUnder(Cur.other_hashers[call.scheme], call.password,
                     call.hashed_password)

ReturnsUpgrade ==
    /\ ret.ok
    /\ IsSome(ret.val)
    /\ Unwrap(ret.val)[1] = Cur.current_version
    /\ VerifyTask(Cur, Cur.current_version, call.password, Unwrap(ret.val)[2]).ok

\* C1 as stated: verify_and_upgrade with a legacy pair and the correct
\* password returns Some((current_version, new_hash)), and new_hash verifies
\* under current_version.
C1_Original == UpgradeCase => ReturnsUpgrade

\* C1 amended: verify_and_upgrade with a legacy pair and the correct password
\* returns Some((current_version, new_hash)) with new_hash verifying under
\* current_version whenever the speculative hash succeeds; when the
\* speculative hash fails the call returns the hashing error.
C1_UpgradeUnlessHashFails ==
    UpgradeCase =>
        IF fut.hash.res.ok
        THEN ReturnsUpgrade /\ Unwrap(ret.val) = fut.hash.res.val
        ELSE /\ ~ret.ok
             /\ ret.err = fut.hash.res.err
             /\ ret.err \in {RngError, HashLibraryError}

C1_Witness == UpgradeCase /\ ReturnsUpgrade

\* C2: when the verification half of verify_and_upgrade fails, the call
\* returns that failure and no (version, hash) pair, whatever the hash half
\* did and in whatever order the two halves ran.
C2_VerifyFailureWins ==
    (/\ pc = "done"
     /\ call.op = "verify_and_upgrade"
     /\ Enabled
     /\ ~fut.verify.res.ok)
    => /\ ~ret.ok
       /\ ret.err = fut.verify.res.err
       /\ ret.err \in VerificationFailedErrors \cup {SchemeNotFoundError}

C2_Witness ==
    /\ pc = "done"
    /\ call.op = "verify_and_upgrade"
    /\ Enabled
    /\ ~fut.verify.res.ok
    /\ fut.hash.state = "ready"
    /\ fut.hash.res.ok
    /\ ~ret.ok

\* verify_and_upgrade has returned for a pair of a registered version,
\* presented with a password other than the one the pair was produced from
WrongPasswordCase ==
    /\ pc = "done"
    /\ call.op = "verify_and_upgrade"
    /\ Enabled
    /\ LookupHasher(Cur, call.scheme).ok
    /\ \E p \in ManagerPasswords :
          /\ p # call.password
          /\ ProducedUnder(LookupHasher(Cur, call.scheme).val, p,
                           call.hashed_password)

\* C3 as stated: with a wrong password verify_and_upgrade returns a
\* VerificationFailed error and no hash is computed during the call, for
\* the current and for a legacy version.
C3_Original ==
    WrongPasswordCase =>
        /\ ~ret.ok
        /\ ret.err \in VerificationFailedErrors
        /\ work.hash_runs = 0

\* C3 amended: with a wrong password verify_and_upgrade returns a
\* VerificationFailed error and no hash; no hash is computed when the version
\* is the current one, while for a legacy version the speculative hash is
\* still computed (unless seeding its generator failed) and is discarded.
C3_WrongPasswordFails ==
    WrongPasswordCase =>
        /\ ~ret.ok
        /\ ret.err \in VerificationFailedErrors
        /\ call.scheme = Cur.current_version =>
              /\ work.hash_runs = 0
              /\ work.rng_draws = 0
              /\ fut.hash.state = "none"
        /\ call.scheme # Cur.current_version =>
              /\ work.rng_draws = 1
              /\ work.hash_runs = IF fut.hash.res.err = RngError THEN 0 ELSE 1

C3_Witness ==
    /\ WrongPasswordCase
    /\ call.scheme # Cur.current_version
    /\ work.hash_runs = 1
    /\ fut.hash.res.ok
    /\ ~ret.ok

\* C4: verify_and_upgrade with version = current_version never starts a hash
\* (the caller's rng is not drawn from, no hash task is submitted or run) and
\* returns None when the verification succeeds.
C4_CurrentVersionNoHash ==
    (/\ pc \in {"await", "done"}
     /\ call.op = "verify_and_upgrade"
     /\ Enabled
     /\ call.scheme = Cur.current_version)
    => /\ fut.hash.state = "none"
       /\ work.hash_runs = 0
       /\ work.rng_draws = 0
       /\ work.spawned = 1
       /\ (pc = "done" /\ fut.verify.res.ok) => (ret.ok /\ ~IsSome(ret.val))

C4_Witness ==
    /\ pc = "done"
    /\ call.op = "verify_and_upgrade"
    /\ Enabled
    /\ call.scheme = Cur.current_version
    /\ fut.verify.res.ok
    /\ ret.ok
    /\ ~IsSome(ret.val)

\* verify was called with a version that is neither current nor a legacy key
UnknownSchemeCase ==
    /\ pc \in {"await", "done"}
    /\ call.op = "verify"
    /\ Enabled
    /\ call.scheme # Cur.current_version
    /\ call.scheme \notin DOMAIN Cur.other_hashers

\* C5: verify with an unknown version fails with SchemeNotFound and runs no
\* Algorithm verify step.
C5_UnknownSchemeNotFound ==
    UnknownSchemeCase =>
        /\ work.verify_runs = 0
        /\ work.hash_runs = 0
        /\ pc = "done" => (~ret.ok /\ ret.err = SchemeNotFoundError)

C5_Witness == UnknownSchemeCase /\ pc = "done" /\ ~ret.ok

\* C6: on a disabled manager every operation fails with ManagerDisabled at
\* once: the caller never suspends, nothing is submitted to the pool, no hash
\* or verify runs and the caller's rng is not drawn from.
C6_DisabledDoesNothing ==
    (phase = "running" /\ ~is_enabled(manager)) =>
        /\ pc # "await"
        /\ work = NoWork
        /\ fut.hash.state = "none"
        /\ fut.verify.state = "none"
        /\ pc = "done" => (~ret.ok /\ ret.err = PasswordManagerDisabledError)

C6_Witness ==
    /\ phase = "running"
    /\ ~is_enabled(manager)
    /\ pc = "done"
    /\ call.op = "verify_and_upgrade"
    /\ ~ret.ok

\* C7: PasswordManager::new fails with the construction error when the list
\* is empty and yields an enabled manager for every non-empty list.
C7_NewFailsOnlyOnEmpty ==
    ctor = "new" =>
        IF Len(schemes) = 0
        THEN phase = "failed" /\ ~ret.ok /\ ret.err = EmptyIteratorError
        ELSE phase = "running" /\ is_enabled(manager)

C7_Witness == ctor = "new" /\ Len(schemes) = 0 /\ phase = "failed"

\* C8: hash returns the version of the first entry of the construction list
\* and a hash produced by that entry's hasher, whatever the order of the
\* version numbers and whatever the legacy table holds for that version.
C8_HashUsesFirstEntry ==
    (/\ pc = "done"
     /\ call.op = "hash"
     /\ Enabled
     /\ ret.ok)
    => /\ ret.val[1] = schemes[1][1]
       /\ ProducedUnder(schemes[1][2], call.password, ret.val[2])

C8_Witness ==
    /\ pc = "done"
    /\ call.op = "hash"
    /\ Enabled
    /\ ret.ok
    /\ Len(schemes) = 2
    /\ schemes[2][1] = schemes[1][1]
    /\ schemes[2][2] # schemes[1][2]

\* C9 as stated: in every manager built by new, the key set of the legacy
\* table does not contain the current version.
C9_Original ==
    (ctor = "new" /\ phase = "running") =>
        Cur.current_version \notin DOMAIN Cur.other_hashers

\* C10: a hash that hash_blocking produced from (password, pepper) verifies
\* with the same password and pepper, for each algorithm.
C10_RoundTrip ==
    (/\ alg_check.done
     /\ alg_check.hashed_password = alg_hashed.val
     /\ alg_check.password = alg_args.password
     /\ alg_check.pepper = alg_args.pepper)
    => alg_check.res.ok

C10_Witness ==
    /\ alg_check.done
    /\ alg_check.hashed_password = alg_hashed.val
    /\ alg_check.password = alg_args.password
    /\ alg_check.pepper = alg_args.pepper
    /\ IsSome(alg_args.pepper)
    /\ Len(Unwrap(alg_args.pepper)) > 0
    /\ alg_args.algorithm = "Argon2id"
    /\ alg_check.res.ok

\* the bytes a pepper contributes
PepperBytes(pepper) == IF IsSome(pepper) THEN Unwrap(pepper) ELSE <<>>

\* verify_blocking was run on the hash hash_blocking produced
CheckedOwnHash ==
    /\ alg_check.done
    /\ alg_check.hashed_password = alg_hashed.val

\* C11 as stated: a hash produced from (password, pepper) fails to verify
\* with a different password, with a different pepper, with no pepper when
\* one was used, and with a pepper when none was used.
C11_Original ==
    (/\ CheckedOwnHash
     /\ \/ /\ alg_check.password # alg_args.password
           /\ alg_check.pepper = alg_args.pepper
        \/ /\ alg_check.password = alg_args.password
           /\ alg_check.pepper # alg_args.pepper)
    => ~alg_check.res.ok

\* C11 amended: a hash produced from (password, pepper) fails to verify with
\* a different password, and with a pepper whose bytes differ from those used
\* at hashing, no pepper counting as zero bytes: an empty pepper and no pepper
\* verify each other's hashes.
C11_OtherInputFails ==
    (/\ CheckedOwnHash
     /\ \/ /\ alg_check.password # alg_args.password
           /\ alg_check.pepper = alg_args.pepper
        \/ /\ alg_check.password = alg_args.password
           /\ PepperBytes(alg_check.pepper) # PepperBytes(alg_args.pepper))
    => ~alg_check.res.ok

C11_Witness ==
    /\ CheckedOwnHash
    /\ alg_args.algorithm = "Bcrypt"
    /\ alg_check.password = alg_args.password
    /\ IsSome(alg_args.pepper)
    /\ Len(Unwrap(alg_args.pepper)) > 0
    /\ ~IsSome(alg_check.pepper)
    /\ ~alg_check.res.ok

(***************************************************************************)
(* The password repository  (crates/storage-pg/src/user/password.rs)       *)
(***************************************************************************)
\* most rows the table holds
MaxRows == 2
\* the clock returns a time in 1..MaxTime
MaxTime == 2
\* the random part of a fresh Ulid is in 1..MaxRand
MaxRand == 2

StoreUsers == {1, 2}
\* the (version, hashed_password) pairs callers record
StoreCredentials == {<<1, "hash-a">>, <<2, "hash-b">>}

\* the Password a row is returned as (password.rs:88-94, 141-147, 199-210)
PasswordOf(row) ==
    [id |-> row.id, hashed_password |-> row.hashed_password,
     version |-> row.version, upgraded_from_id |-> row.upgraded_from_id,
     created_at |-> row.created_at]

\* the lookup ordering the whole table, whoever the rows belong to
Latest_AnyUser(table, user) ==
    {r \in table : /\ r.user_id = user
                   /\ \A o \in table : o.created_at <= r.created_at}

\* WHERE user_id = $1 ORDER BY created_at DESC LIMIT 1: the rows the query may
\* return (any of the newest when several share created_at)
Latest(table, user) ==
    {r \in table : /\ r.user_id = user
                   /\ \A o \in table : o.user_id = user => o.created_at <= r.created_at}

\* the INSERT of add (password.rs:118-139); it fails on a user_password_id
\* the table already holds
Inserted(table, now, rand, user, version, hashed_password, upgraded_from) ==
    LET id == <<now, rand>>
        row == [id |-> id, user_id |-> user, hashed_password |-> hashed_password,
                version |-> version,
                upgraded_from_id |-> IF IsSome(upgraded_from)
                                     THEN Some(Unwrap(upgraded_from).id) ELSE None,
                created_at |-> now]
    IN  IF \E r \in table : r.id = id
        THEN [ok |-> FALSE, rows |-> table, password |-> None]
        ELSE [ok |-> TRUE, rows |-> table \cup {row}, password |-> Some(PasswordOf(row))]

\* the UPDATE of upsert (password.rs:183-197)
Updated(table, target, version, new_hashed_password) ==
    LET row == [target EXCEPT !.hashed_password = new_hashed_password,
                              !.version = version]
    IN  [ok |-> TRUE, rows |-> (table \ {target}) \cup {row},
         password |-> Some(PasswordOf(row))]

\* PgUserPasswordRepository::active
active ==
    /\ \E user \in StoreUsers :
          IF Latest(rows, user) = {}
          THEN store_ret' = [op |-> "active", user |-> user, ok |-> TRUE,
                             password |-> None]
          ELSE \E r \in Latest(rows, user) :
                  store_ret' = [op |-> "active", user |-> user, ok |-> TRUE,
                                password |-> Some(PasswordOf(r))]
    /\ UNCHANGED <<rows, added>>
    /\ UNCHANGED <<mgrVars, algVars>>

\* PgUserPasswordRepository::add
add ==
    /\ Cardinality(rows) < MaxRows
    /\ \E now \in 1..MaxTime, rand \in 1..MaxRand, user \in StoreUsers,
          cred \in StoreCredentials :
       \E upgraded_from \in {None} \cup {Some(PasswordOf(r)) :
                                           r \in {x \in rows : x.user_id = user}} :
          LET res == Inserted(rows, now, rand, user, cred[1], cred[2], upgraded_from)
          IN  /\ rows' = res.rows
              /\ store_ret' = [op |-> "add", user |-> user, ok |-> res.ok,
                               password |-> res.password]
              /\ added' = IF res.ok
                          THEN Some([user |-> user, version |-> cred[1],
                                     hashed_password |-> cred[2],
                                     upgraded_from |-> upgraded_from,
                                     now |-> now,
                                     id |-> Unwrap(res.password).id])
                          ELSE added
    /\ UNCHANGED <<mgrVars, algVars>>

\* PgUserPasswordRepository::upsert
upsert ==
    /\ \E user \in StoreUsers, cred \in StoreCredentials :
          IF Latest(rows, user) # {}
          THEN \E existing \in Latest(rows, user) :
                  LET res == Updated(rows, existing, cred[1], cred[2])
                  IN  /\ rows' = res.rows
                      /\ store_ret' = [op |-> "upsert", user |-> user,
                                       ok |-> res.ok, password |-> res.password]
                      /\ added' = IF res.ok /\ IsSome(added) /\ Unwrap(added).user = user
                                  THEN None ELSE added
          ELSE /\ Cardinality(rows) < MaxRows
               /\ \E now \in 1..MaxTime, rand \in 1..MaxRand :
                     LET res == Inserted(rows, now, rand, user, cred[1], cred[2], None)
                     IN  /\ rows' = res.rows
                         /\ store_ret' = [op |-> "upsert", user |-> user,
                                          ok |-> res.ok, password |-> res.password]
                         /\ added' = added
    /\ UNCHANGED <<mgrVars, algVars>>

StoreInit == MgrInit /\ AlgIdle /\ StoreIdle

NextStore ==
    \/ active
    \/ add
    \/ upsert

SpecStore == StoreInit /\ [][NextStore]_vars

\* C12 as stated: no storage operation changes the hashed_password or the
\* version of a record that exists, and recording a password (add, upsert)
\* adds one record to the user's records.
C12_Original ==
    [][/\ \A r \in rows : \E n \in rows' :
              /\ n.id = r.id
              /\ n.hashed_password = r.hashed_password
              /\ n.version = r.version
       /\ (store_ret'.op \in {"add", "upsert"} /\ store_ret'.ok) =>
              Cardinality({n \in rows' : n.user_id = store_ret'.user})
                = Cardinality({r \in rows : r.user_id = store_ret'.user}) + 1
      ]_vars

(***************************************************************************)
(* Password buffers                                                        *)
(***************************************************************************)
PasswordOps == {"hash", "verify", "verify_and_upgrade"}

\* C13: once hash, verify or verify_and_upgrade has returned, on whatever
\* path, every buffer that held raw password bytes during the call (the
\* caller's buffer, the clone for the speculative hash, the password+pepper
\* copies and the allocations they were grown from) has been zeroed; none was
\* released with the bytes still in it.
C13_Original ==
    (pc = "done" /\ call.op \in PasswordOps) =>
        \A b \in DOMAIN mem : mem[b] \in {"none", "zeroed"}

(***************************************************************************)
(* The failures of Algorithm::verify_blocking                              *)
(***************************************************************************)
\* C14: verify_blocking on a malformed encoded hash fails with the same error
\* value as verify_blocking of a wrong password against a well-formed hash
\* of the same algorithm: a caller cannot tell the two causes apart.
C14_Original ==
    (alg_check.done /\ alg_check.hashed_password = Malformed) =>
        /\ ~alg_check.res.ok
        /\ \A password \in AlgPasswords, pepper \in AlgPeppers :
              LET wrong == Algorithm_verify_blocking(alg_args.algorithm,
                               alg_hashed.val, password, pepper)
              IN  ~wrong.ok => wrong.err = alg_check.res.err

(***************************************************************************)
(* The blocking pool and the caller's task                                 *)
(***************************************************************************)
\* C15: every Algorithm hash or verify computation of hash, verify and
\* verify_and_upgrade is a step of the blocking pool on a task submitted with
\* spawn_blocking; the caller's task does not move during it, it is suspended
\* on the pool (or gone) and never computes a hash or a verification itself.
C15_ComputesOnPool ==
    [][/\ work'.hash_runs > work.hash_runs =>
             /\ fut.hash.state = "spawned"
             /\ fut'.hash.state = "ready"
             /\ pc \notin {"idle", "done"}
             /\ pc' = pc
       /\ work'.verify_runs > work.verify_runs =>
             /\ fut.verify.state = "spawned"
             /\ fut'.verify.state = "ready"
             /\ pc \notin {"idle", "done"}
             /\ pc' = pc
      ]_vars

\* both computations of a verify_and_upgrade ran while its caller is suspended
C15_Witness ==
    /\ pc = "await"
    /\ work.hash_runs = 1
    /\ work.verify_runs = 1

(***************************************************************************)
(* The complexity gate                                                     *)
(***************************************************************************)
ComplexityCase ==
    pc = "done" /\ call.op = "is_password_complex_enough" /\ Enabled

\* C16: on an enabled manager is_password_complex_enough returns Ok(true)
\* exactly when the estimator's score (0..4) is at least minimum_complexity;
\* so a minimum of 0 accepts every password, a minimum above 4 accepts none,
\* and a score accepted at this minimum is accepted at every lower minimum.
C16_ScoreAtLeastMinimum ==
    ComplexityCase =>
        /\ ret.ok
        /\ ret.val = (call.score >= Cur.minimum_complexity)
        /\ Cur.minimum_complexity = 0 => ret.val
        /\ Cur.minimum_complexity > 4 => ~ret.val
        /\ ret.val => \A m \in 0..Cur.minimum_complexity :
                          ComplexEnough(call.score, m)

\* a score equal to a non-zero minimum is accepted
C16_Witness ==
    /\ ComplexityCase
    /\ Cur.minimum_complexity = 3
    /\ call.score = 3
    /\ ret.ok /\ ret.val

(***************************************************************************)
(* The two halves of an upgrade                                            *)
(***************************************************************************)
\* a verify_and_upgrade call for a version other than the current one
LegacyCall ==
    /\ call.op = "verify_and_upgrade"
    /\ Enabled
    /\ call.scheme # Cur.current_version

\* C17: in verify_and_upgrade with a version other than the current one, the
\* verification and the speculative hash are two pool tasks that may finish
\* in either order, and the caller gets a result, success or failure, only
\* once both have completed: while either is still on the pool the caller
\* stays suspended, also when the verification has already failed.
C17_BothHalvesComplete ==
    /\ (LegacyCall /\ pc = "done") =>
           /\ fut.hash.state = "ready"
           /\ fut.verify.state = "ready"
    /\ (LegacyCall /\ (fut.hash.state = "spawned" \/ fut.verify.state = "spawned")) =>
           /\ pc # "done"
           /\ ret = Err("")

\* the verification has failed and the hash task is still on the pool
C17_Witness ==
    /\ LegacyCall
    /\ pc = "await"
    /\ fut.verify.state = "ready"
    /\ ~fut.verify.res.ok
    /\ fut.hash.state = "spawned"

(***************************************************************************)
(* Cancellation                                                            *)
(***************************************************************************)
\* C18: when the caller is cancelled while a hash or a verification is on the
\* blocking pool, the task stays there until the pool has run it to
\* completion with the result the computation gives (never a pool error);
\* that result is delivered to no caller and stores nothing, and the call
\* ends only once its tasks have completed.
C18_CancelledWorkCompletes ==
    [][/\ pc' = "cancelled" =>
             /\ ret' = Err("")
             /\ rows' = rows
             /\ fut.hash.state = "spawned" =>
                   \/ fut'.hash.state = "spawned"
                   \/ /\ work'.hash_runs = work.hash_runs + 1
                      /\ \E salt \in Salts, lib_ok \in BOOLEAN :
                            fut'.hash = Ready(HashTask(Cur, salt, lib_ok, call.password))
             /\ fut.verify.state = "spawned" =>
                   \/ fut'.verify.state = "spawned"
                   \/ fut'.verify = Ready(VerifyTask(Cur, call.scheme, call.password,
                                                     call.hashed_password))
       /\ (pc = "cancelled" /\ pc' # "cancelled") =>
             /\ pc' = "idle"
             /\ fut.hash.state # "spawned"
             /\ fut.verify.state # "spawned"
             /\ ret' = Err("")
             /\ rows' = rows
      ]_vars

\* a hash computed after its caller was cancelled: it succeeded and its
\* result lies undelivered
C18_Witness ==
    /\ pc = "cancelled"
    /\ work.detached_runs >= 1
    /\ fut.hash.state = "ready"
    /\ fut.hash.res.ok
    /\ ret = Err("")

(***************************************************************************)
(* The errors of an upgrade                                                *)
(***************************************************************************)
\* C20: in verify_and_upgrade with a version other than the current one,
\* when both halves fail the call returns the verification's error, not the
\* hashing error; when the verification succeeds and the speculative hash
\* fails, the call fails with the hashing error: it returns neither Ok(None)
\* nor any other success, although the password was correct.
C20_UpgradeErrors ==
    (LegacyCall /\ pc = "done") =>
        /\ (~fut.verify.res.ok /\ ~fut.hash.res.ok) =>
               /\ ret = Err(fut.verify.res.err)
               /\ ret.err \notin {RngError, HashLibraryError}
        /\ (fut.verify.res.ok /\ ~fut.hash.res.ok) =>
               /\ ~ret.ok
               /\ ret.err = fut.hash.res.err
               /\ ret.err \in {RngError, HashLibraryError}

\* a correct password for a legacy scheme, reported as the failure of the
\* hash library
C20_Witness ==
    /\ LegacyCall
    /\ pc = "done"
    /\ fut.verify.res.ok
    /\ fut.hash.state = "ready"
    /\ ~fut.hash.res.ok
    /\ ret = Err(HashLibraryError)

(***************************************************************************)
(* Managers built from lists that repeat a version  (passwords.rs:69-78)   *)
(***************************************************************************)
NextLegacy ==
    \/ NewLong
    \/ verify
    \/ RunVerifyTask
    \/ Resume
    \/ Return

SpecLegacy == Init /\ [][NextLegacy]_vars

\* the non-first positions of the construction list that carry the version
LegacyPositions(version) ==
    {i \in 2..Len(schemes) : schemes[i][1] = version}

\* the hasher of the last non-first entry with the version
LastLegacyHasher(version) ==
    LET last == CHOOSE i \in LegacyPositions(version) :
                    \A j \in LegacyPositions(version) : j <= i
    IN  schemes[last][2]

\* verify has returned for a version that the construction list repeats
\* among its non-first entries
RepeatedVersionCase ==
    /\ pc = "done"
    /\ call.op = "verify"
    /\ ctor = "new"
    /\ Enabled
    /\ Cardinality(LegacyPositions(call.scheme)) >= 2

RecordsOf(user) == {r \in rows : r.user_id = user}

\* the last add succeeded with a clock time later than the created_at of
\* every record its user already had, and the user's records have not been
\* written since
AddedLatest ==
    /\ IsSome(added)
    /\ \A r \in RecordsOf(Unwrap(added).user) :
          r.id # Unwrap(added).id => r.created_at < Unwrap(added).now

\* active has just returned
ActiveReturned == store_ret.op = "active"

\* C21: once add has succeeded for a user with a clock time later than the
\* created_at of each of the user's earlier records, active for that user
\* returns the record add made: its version, its hash, and the id of
\* upgraded_from as back-reference. active returns None exactly when the
\* user has no record, and otherwise one of the user's own records, whatever
\* records other users have.
C21_ActiveReturnsAdded ==
    ActiveReturned =>
        /\ store_ret.ok
        /\ store_ret.password = None <=> RecordsOf(store_ret.user) = {}
        /\ IsSome(store_ret.password) =>
              \E r \in RecordsOf(store_ret.user) :
                 /\ PasswordOf(r) = Unwrap(store_ret.password)
                 /\ \A o \in RecordsOf(store_ret.user) : o.created_at <= r.created_at
        /\ (AddedLatest /\ Unwrap(added).user = store_ret.user) =>
              /\ IsSome(store_ret.password)
              /\ Unwrap(store_ret.password).id = Unwrap(added).id
              /\ Unwrap(store_ret.password).version = Unwrap(added).version
              /\ Unwrap(store_ret.password).hashed_password
                    = Unwrap(added).hashed_password
              /\ Unwrap(store_ret.password).upgraded_from_id
                    = IF IsSome(Unwrap(added).upgraded_from)
                      THEN Some(Unwrap(Unwrap(added).upgraded_from).id)
                      ELSE None

\* active returns the record just added as an upgrade of the user's earlier
\* record
C21_Witness ==
    /\ ActiveReturned
    /\ AddedLatest
    /\ Unwrap(added).user = store_ret.user
    /\ IsSome(Unwrap(added).upgraded_from)
    /\ \E r \in RecordsOf(store_ret.user) :
          /\ r.id = Unwrap(Unwrap(added).upgraded_from).id
          /\ r.created_at < Unwrap(added).now
    /\ Unwrap(store_ret.password).id = Unwrap(added).id
    /\ Unwrap(store_ret.password).upgraded_from_id
          = Some(Unwrap(Unwrap(added).upgraded_from).id)

====
